---- MODULE Spec2Model ----
(***************************************************************************)
(* Model of web.py, the entry point of the shapy backend: the settings    *)
(* read from the process environment, the startup sequence of main(), the *)
(* route table handed to tornado.web.Application, and the handling of     *)
(* requests by the static-file handlers and by IndexHandler.              *)
(*                                                                         *)
(* Text is modelled as a sequence of tokens.  An environment value is a   *)
(* sequence of characters.  A request path is a sequence whose elements   *)
(* are the separator "/" and maximal runs of non-separator characters     *)
(* ("api", "x.css", ...), so that sequence equality and sequence prefix   *)
(* coincide with string equality and with matching a regular expression   *)
(* made of a literal followed by an optional match-anything group.       *)
(***************************************************************************)
EXTENDS Integers, Sequences, FiniteSets, TLC

VARIABLES
    env,        \* os.environ: setting name -> [set, val]
    state,      \* position of the process in the startup sequence
    config,     \* the module-level settings PORT, DB_HOST, ... (lines 19-33)
    routes,     \* the handler list of the tornado Application (lines 55-68)
    pool,       \* app.db, the momoko pool (lines 71-74)
    listener,   \* the socket bound by HTTPServer.listen (line 77)
    reqs        \* per client connection, the request being handled

vars == <<env, state, config, routes, pool, listener, reqs>>

----------------------------------------------------------------------------
(* Bounds of the model. *)

\* longest value of PORT and DB_PORT in the environment, in characters
MaxDigits == 2
\* how many of the seven string settings may be missing from the environment
MaxAbsent == 1
\* how many tokens a request path may add to a prefix of a route's literal
MaxExtra == 3

\* characters an integer setting is written with
EnvChars == {"8", "x", "-"}
\* the tokens request paths add to the prefixes of the routes' literals
ExtraTokens == {"/", "foo", "x.css", "y.js"}
\* client connections
Conns == {1, 2}
Methods == {"GET", "HEAD"}

----------------------------------------------------------------------------
(* The environment and the settings read from it: lines 19-33. *)

StrNames == {"DB_HOST", "DB_NAME", "DB_USER", "DB_PASS",
             "FB_API_KEY", "FB_SECRET", "COOKIE_SECRET"}
IntNames == {"PORT", "DB_PORT"}
Names == StrNames \cup IntNames

\* os.environ.get(name) of a variable that is not set: None
None == [set |-> FALSE, val |-> <<>>]
Some(s) == [set |-> TRUE, val |-> s]

\* the default of os.environ.get('PORT', 8000)
DefaultPort == 8000

RECURSIVE SeqsUpTo(_, _)
SeqsUpTo(S, n) ==
    IF n = 0 THEN {<<>>}
    ELSE LET shorter == SeqsUpTo(S, n - 1)
         IN  shorter \cup {Append(s, x) : s \in shorter, x \in S}

IntInputs == {None} \cup {Some(s) : s \in SeqsUpTo(EnvChars, MaxDigits)}

\* an environment: the two integer settings as given, the string settings
\* named in absent missing and the others set
MkEnv(port, dbport, absent) ==
    [n \in Names |->
        IF n = "PORT" THEN port
        ELSE IF n = "DB_PORT" THEN dbport
        ELSE IF n \in absent THEN None
        ELSE Some(<<"s">>)]

Envs ==
    {MkEnv(p, d, a) :
        p \in IntInputs, d \in IntInputs,
        a \in {x \in SUBSET StrNames : Cardinality(x) <= MaxAbsent}}

Digits == {"0", "1", "2", "3", "4", "5", "6", "7", "8", "9"}
DigitVal(c) ==
    CASE c = "0" -> 0 [] c = "1" -> 1 [] c = "2" -> 2 [] c = "3" -> 3
      [] c = "4" -> 4 [] c = "5" -> 5 [] c = "6" -> 6 [] c = "7" -> 7
      [] c = "8" -> 8 [] c = "9" -> 9

RECURSIVE Strip(_)
\* str.strip(): leading and trailing blanks removed
Strip(s) ==
    IF s = <<>> THEN s
    ELSE IF Head(s) = " " THEN Strip(Tail(s))
    ELSE IF s[Len(s)] = " " THEN Strip(SubSeq(s, 1, Len(s) - 1))
    ELSE s

RECURSIVE Decimal(_)
Decimal(s) == IF s = <<>> THEN 0
              ELSE 10 * Decimal(SubSeq(s, 1, Len(s) - 1)) + DigitVal(s[Len(s)])

\* int(s) of a str: blanks stripped, an optional sign, then one or more digits;
\* anything else raises ValueError
IntOfStr(s) ==
    LET t      == Strip(s)
        signed == t # <<>> /\ Head(t) \in {"-", "+"}
        body   == IF signed THEN Tail(t) ELSE t
        ok     == body # <<>> /\ \A i \in 1..Len(body) : body[i] \in Digits
    IN  [ok  |-> ok,
         val |-> IF ~ok THEN 0
                 ELSE IF signed /\ Head(t) = "-" THEN 0 - Decimal(body)
                 ELSE Decimal(body)]

\* int(os.environ.get('PORT', 8000)): int of the default when PORT is not set
ReadPORT(e) ==
    IF e["PORT"].set THEN IntOfStr(e["PORT"].val)
    ELSE [ok |-> TRUE, val |-> DefaultPort]

\* a reading of DB_PORT that falls back to a default as PORT does
ReadDB_PORT_Defaulted(e) ==
    IF e["DB_PORT"].set THEN IntOfStr(e["DB_PORT"].val)
    ELSE [ok |-> TRUE, val |-> 5432]

\* int(os.environ.get('DB_PORT')): int(None) raises TypeError
ReadDB_PORT(e) ==
    IF e["DB_PORT"].set THEN IntOfStr(e["DB_PORT"].val)
    ELSE [ok |-> FALSE, val |-> 0]

\* the settings before the module body has run
NoConfig == [PORT |-> 0, DB_PORT |-> 0, str |-> [n \in StrNames |-> None]]

\* lines 19-33 run to the end: every os.environ.get of a string setting
\* gives the value or None, and nothing looks at which
LoadConfig(e) ==
    [PORT    |-> ReadPORT(e).val,
     DB_PORT |-> ReadDB_PORT(e).val,
     str     |-> [n \in StrNames |-> e[n]]]

\* whether lines 19-33 run to the end without raising
ConfigLoads(e) == ReadPORT(e).ok /\ ReadDB_PORT(e).ok

----------------------------------------------------------------------------
(* Paths and the route table: lines 55-68. *)

Slash == "/"

IsPrefix(p, s) == Len(p) <= Len(s) /\ SubSeq(s, 1, Len(p)) = p
Drop(s, n) == SubSeq(s, n + 1, Len(s))

\* a binding (pattern, handler class, kwargs): the pattern is the literal lit,
\* followed by one match-anything group when capture is set; path is the
\* 'path' entry of the kwargs, empty when the binding has none
Binding(lit, capture, handler, path) ==
    [lit |-> lit, capture |-> capture, handler |-> handler, path |-> path]

\* a handler list with the catch-all binding registered first
RouteTableCatchAllFirst ==
    << Binding(<<>>, TRUE, "IndexHandler", <<"client", Slash, "index.html">>),
       Binding(<<Slash, "api", Slash, "user", Slash, "auth">>, FALSE, "AuthHandler", <<>>),
       Binding(<<Slash, "api", Slash, "user", Slash, "login">>, FALSE, "LoginHandler", <<>>),
       Binding(<<Slash, "api", Slash, "user", Slash, "logout">>, FALSE, "LogoutHandler", <<>>),
       Binding(<<Slash, "api", Slash, "user", Slash, "register">>, FALSE, "RegisterHandler", <<>>),
       Binding(<<Slash, "api", Slash, "sock">>, FALSE, "WSHandler", <<>>),
       Binding(<<Slash, "css", Slash>>, TRUE, "StaticFileHandler", <<"client", Slash, "css">>),
       Binding(<<Slash, "js", Slash>>, TRUE, "StaticFileHandler", <<"client", Slash, "js">>),
       Binding(<<Slash, "html", Slash>>, TRUE, "StaticFileHandler", <<"client", Slash, "html">>) >>

\* a handler list whose script prefix is bound to the stylesheet directory
RouteTableJsToCss ==
    << Binding(<<Slash, "api", Slash, "user", Slash, "auth">>, FALSE, "AuthHandler", <<>>),
       Binding(<<Slash, "api", Slash, "user", Slash, "login">>, FALSE, "LoginHandler", <<>>),
       Binding(<<Slash, "api", Slash, "user", Slash, "logout">>, FALSE, "LogoutHandler", <<>>),
       Binding(<<Slash, "api", Slash, "user", Slash, "register">>, FALSE, "RegisterHandler", <<>>),
       Binding(<<Slash, "api", Slash, "sock">>, FALSE, "WSHandler", <<>>),
       Binding(<<Slash, "css", Slash>>, TRUE, "StaticFileHandler", <<"client", Slash, "css">>),
       Binding(<<Slash, "js", Slash>>, TRUE, "StaticFileHandler", <<"client", Slash, "css">>),
       Binding(<<Slash, "html", Slash>>, TRUE, "StaticFileHandler", <<"client", Slash, "html">>),
       Binding(<<>>, TRUE, "IndexHandler", <<"client", Slash, "index.html">>) >>

\* the handler list of lines 56-67, in registration order
RouteTable ==
    << Binding(<<Slash, "api", Slash, "user", Slash, "auth">>, FALSE, "AuthHandler", <<>>),
       Binding(<<Slash, "api", Slash, "user", Slash, "login">>, FALSE, "LoginHandler", <<>>),
       Binding(<<Slash, "api", Slash, "user", Slash, "logout">>, FALSE, "LogoutHandler", <<>>),
       Binding(<<Slash, "api", Slash, "user", Slash, "register">>, FALSE, "RegisterHandler", <<>>),
       Binding(<<Slash, "api", Slash, "sock">>, FALSE, "WSHandler", <<>>),
       Binding(<<Slash, "css", Slash>>, TRUE, "StaticFileHandler", <<"client", Slash, "css">>),
       Binding(<<Slash, "js", Slash>>, TRUE, "StaticFileHandler", <<"client", Slash, "js">>),
       Binding(<<Slash, "html", Slash>>, TRUE, "StaticFileHandler", <<"client", Slash, "html">>),
       Binding(<<>>, TRUE, "IndexHandler", <<"client", Slash, "index.html">>) >>

\* a matching that takes every pattern as a prefix of the path
MatchesPrefix(b, path) == IsPrefix(b.lit, path)

\* tornado compiles each pattern with an end anchor appended and applies
\* re.match, so the pattern has to match the whole path: a literal alone
\* matches only itself, a literal followed by a group matches every path
\* that starts with it
Matches(b, path) ==
    IF b.capture THEN IsPrefix(b.lit, path) ELSE path = b.lit

\* the groups of the match, handed to the handler's method as arguments
Captured(b, path) == IF b.capture THEN Drop(path, Len(b.lit)) ELSE <<>>

RECURSIVE ScanAll(_, _, _)
\* a scan that goes on after a match and selects every matching binding
ScanAll(table, path, i) ==
    IF i > Len(table) THEN <<>>
    ELSE IF Matches(table[i], path) THEN <<i>> \o ScanAll(table, path, i + 1)
    ELSE ScanAll(table, path, i + 1)

RECURSIVE Scan(_, _, _)
\* the application's scan of its handler list from binding i on: the first
\* binding that matches is selected and the scan stops; none selects nothing
Scan(table, path, i) ==
    IF i > Len(table) THEN <<>>
    ELSE IF Matches(table[i], path) THEN <<i>>
    ELSE Scan(table, path, i + 1)

\* the paths clients request: every prefix of a route's literal, extended by
\* up to MaxExtra tokens, that is a path (it starts with the separator and
\* has no two names next to each other, which would be one name)
Canonical(p) ==
    /\ p # <<>>
    /\ Head(p) = Slash
    /\ \A i \in 1..(Len(p) - 1) : p[i] = Slash \/ p[i + 1] = Slash

Paths ==
    {p \in UNION {{SubSeq(RouteTable[i].lit, 1, k) \o x :
                      k \in 0..Len(RouteTable[i].lit),
                      x \in SeqsUpTo(ExtraTokens, MaxExtra)} :
                  i \in 1..Len(RouteTable)} :
        Canonical(p)}

----------------------------------------------------------------------------
(* The files below the working directory, and tornado's StaticFileHandler. *)

\* a file-system path: whether it is absolute, and its names in order; a
\* relative one is taken from the working directory
IsName(t) == t # Slash
Resolve(p) ==
    [abs  |-> p # <<>> /\ Head(p) = Slash,
     segs |-> SelectSeq(p, IsName)]

Dirs == {<<>>, <<"client">>, <<"client", "css">>, <<"client", "js">>,
         <<"client", "html">>}
FileNames == {<<"client", "index.html">>, <<"client", "css", "x.css">>,
              <<"client", "js", "y.js">>, <<"client", "html", "foo">>}

\* the bytes of each file
Bytes(f) ==
    CASE f = <<"client", "index.html">>   -> <<"<html>", "app">>
      [] f = <<"client", "css", "x.css">> -> <<"body{}">>
      [] f = <<"client", "js", "y.js">>   -> <<"var", "y">>
      [] f = <<"client", "html", "foo">>  -> <<"<p>">>

\* the content type guessed from the file's name
ContentType(f) ==
    LET name == f[Len(f)]
    IN  CASE name = "index.html" -> "text/html"
          [] name = "x.css"      -> "text/css"
          [] name = "y.js"       -> "application/javascript"
          [] OTHER               -> ""

\* a response: the status, the file it was read from, the headers that
\* describe the content, and the body
Response(status, file, ctype, length, body) ==
    [status |-> status, file |-> file, ctype |-> ctype, length |-> length,
     body |-> body]
NoResponse == Response(0, <<>>, "", 0, <<>>)
\* an HTTPError raised by the handler: the status and nothing of any file
HTTPError(status) == Response(status, <<>>, "", 0, <<>>)

\* os.path.join(root, path) made absolute: an absolute path replaces the
\* root, a relative one is appended to it; empty names (doubled or
\* trailing separators) disappear
AbsPath(root, path) ==
    IF path # <<>> /\ Head(path) = Slash
    THEN Resolve(path)
    ELSE [abs |-> root.abs, segs |-> root.segs \o Resolve(path).segs]

\* StaticFileHandler.get(path, include_body) of a handler serving root:
\* 403 outside the root, 404 when nothing is there, 403 when it is no
\* regular file, else 200 with the file's headers and, unless include_body
\* is false, its bytes
StaticFileHandler_get(root, path, include_body) ==
    LET abspath == AbsPath(root, path)
        inside  == abspath.abs = root.abs /\ IsPrefix(root.segs, abspath.segs)
        f       == abspath.segs
    IN  IF ~inside THEN HTTPError(403)
        ELSE IF abspath.abs \/ f \notin (Dirs \cup FileNames) THEN HTTPError(404)
        ELSE IF f \notin FileNames THEN HTTPError(403)
        ELSE Response(200, f, ContentType(f), Len(Bytes(f)),
                      IF include_body THEN Bytes(f) ELSE <<>>)

----------------------------------------------------------------------------
(* IndexHandler: lines 37-43. *)

\* the position of the last separator of p, 0 when it has none
RECURSIVE LastSlash(_)
LastSlash(p) ==
    IF p = <<>> THEN 0
    ELSE IF p[Len(p)] = Slash THEN Len(p)
    ELSE LastSlash(SubSeq(p, 1, Len(p) - 1))

RECURSIVE RStripSlash(_)
RStripSlash(p) ==
    IF p # <<>> /\ p[Len(p)] = Slash THEN RStripSlash(SubSeq(p, 1, Len(p) - 1))
    ELSE p

\* os.path.split(p): everything up to the last separator, without trailing
\* separators unless it consists of separators only, and what follows it
PathSplit(p) ==
    LET i    == LastSlash(p)
        head == SubSeq(p, 1, i)
        tail == Drop(p, i)
    IN  [dirname  |-> IF RStripSlash(head) = <<>> THEN head ELSE RStripSlash(head),
         filename |-> tail]

\* the fields of a handler instance
Handler(class, root, dirname, filename) ==
    [class |-> class, root |-> root, dirname |-> dirname, filename |-> filename]
NoHandler == Handler("", Resolve(<<>>), <<>>, <<>>)

\* StaticFileHandler.initialize(path): the root is the path made absolute
StaticFileHandler_initialize(path) ==
    Handler("StaticFileHandler", Resolve(path), <<>>, <<>>)

\* an initialize that hands the whole path on as the root, unsplit
IndexHandler_initialize_NoSplit(path) ==
    Handler("IndexHandler", Resolve(path), path, <<>>)

\* IndexHandler.initialize(path), lines 38-40
IndexHandler_initialize(path) ==
    LET s == PathSplit(path)
    IN  Handler("IndexHandler", Resolve(s.dirname), s.dirname, s.filename)

\* a get that asks for the requested path
IndexHandler_get_path(self, path, include_body) ==
    StaticFileHandler_get(self.root, path, include_body)

\* a get that always asks for the body
IndexHandler_get_body(self, path, include_body) ==
    StaticFileHandler_get(self.root, self.filename, TRUE)

\* IndexHandler.get(path, include_body), lines 42-43
IndexHandler_get(self, path, include_body) ==
    StaticFileHandler_get(self.root, self.filename, include_body)

\* the handler instance the application makes for binding b: the class is
\* constructed and its initialize is called with the binding's kwargs
MakeHandler(b) ==
    IF b.handler = "IndexHandler" THEN IndexHandler_initialize(b.path)
    ELSE IF b.handler = "StaticFileHandler" THEN StaticFileHandler_initialize(b.path)
    ELSE Handler(b.handler, Resolve(<<>>), <<>>, <<>>)

\* the handler's method for the request is run with the captured groups;
\* StaticFileHandler.head(path) is self.get(path, include_body=False), and
\* IndexHandler inherits it.  What the API handlers answer is theirs to say.
Execute(h, method, args) ==
    IF h.class = "IndexHandler" THEN IndexHandler_get(h, args, method = "GET")
    ELSE IF h.class = "StaticFileHandler"
         THEN StaticFileHandler_get(h.root, args, method = "GET")
    ELSE IF h.class = "ErrorHandler" THEN HTTPError(404)
    ELSE NoResponse

----------------------------------------------------------------------------
(* The process: startup (lines 19-33 and main, lines 47-78) and requests. *)

States == {"Unconfigured", "Configured", "Routed", "Pooled", "Listening",
           "Serving", "Failed"}

\* '%s' of a setting: its value, or the text None when it is not set
Str(v) == IF v.set THEN v.val ELSE <<"None">>

\* the dsn of lines 72-73
Dsn(c) ==
    [dbname |-> Str(c.str["DB_NAME"]), user |-> Str(c.str["DB_USER"]),
     password |-> Str(c.str["DB_PASS"]), host |-> Str(c.str["DB_HOST"]),
     port |-> c.DB_PORT]

NoPool == [built |-> FALSE, size |-> 0,
           dsn |-> [dbname |-> <<>>, user |-> <<>>, password |-> <<>>,
                    host |-> <<>>, port |-> 0]]
NoListener == [bound |-> FALSE, port |-> 0]

\* a connection's request: where its handling stands, the request line,
\* the bindings selected for it in order, the handler instance made for
\* it, the arguments captured from the path, and the response
Request(pc, method, path, invoked, handler, args, resp) ==
    [pc |-> pc, method |-> method, path |-> path, invoked |-> invoked,
     handler |-> handler, args |-> args, resp |-> resp]
IdleRequest == Request("idle", "", <<>>, <<>>, NoHandler, <<>>, NoResponse)

\* the paths of requests that are handled while another request is
TwoAtATime ==
    {<<Slash>>, <<Slash, "foo">>, <<Slash, "css", Slash, "x.css">>,
     <<Slash, "js", Slash, "y.js">>, <<Slash, "css", Slash, "y.js">>,
     <<Slash, "api", Slash, "sock">>}

\* the paths requested of a process whose startup is under study
ProbePaths == {<<Slash>>, <<Slash, "css", Slash, "x.css">>}

\* the environments of a deployed process: everything set but PORT, and
\* one in which DB_PORT is missing as well
DeployedEnvs == {MkEnv(None, Some(<<"8">>), {}), MkEnv(None, None, {})}

InitWith(envs) ==
    /\ env \in envs
    /\ state = "Unconfigured"
    /\ config = NoConfig
    /\ routes = <<>>
    /\ pool = NoPool
    /\ listener = NoListener
    /\ reqs = [c \in Conns |-> IdleRequest]

Init == InitWith(DeployedEnvs)
InitStartup == InitWith(Envs)

\* lines 19-33: the module body reads the settings
ReadConfig ==
    /\ state = "Unconfigured"
    /\ ConfigLoads(env)
    /\ config' = LoadConfig(env)
    /\ state' = "Configured"
    /\ UNCHANGED <<env, routes, pool, listener, reqs>>

\* int() raises at line 19 or line 25 and the import of the module fails
ConfigFail ==
    /\ state = "Unconfigured"
    /\ ~ConfigLoads(env)
    /\ state' = "Failed"
    /\ UNCHANGED <<env, config, routes, pool, listener, reqs>>

\* lines 55-68: the application and its handler list
BuildRoutes ==
    /\ state = "Configured"
    /\ routes' = RouteTable
    /\ state' = "Routed"
    /\ UNCHANGED <<env, config, pool, listener, reqs>>

\* lines 71-74: the pool is constructed, with one connection
BuildPool ==
    /\ state = "Routed"
    /\ pool' = [built |-> TRUE, size |-> 1, dsn |-> Dsn(config)]
    /\ state' = "Pooled"
    /\ UNCHANGED <<env, config, routes, listener, reqs>>

\* momoko.Pool raises
PoolFail ==
    /\ state = "Routed"
    /\ state' = "Failed"
    /\ UNCHANGED <<env, config, routes, pool, listener, reqs>>

\* a listen that does not wait for the pool
ListenEarly ==
    /\ state = "Routed"
    /\ config.PORT \in 0..65535
    /\ listener' = [bound |-> TRUE, port |-> config.PORT]
    /\ state' = "Listening"
    /\ UNCHANGED <<env, config, routes, pool, reqs>>

\* line 77: the port is bound
Listen ==
    /\ state = "Pooled"
    /\ config.PORT \in 0..65535
    /\ listener' = [bound |-> TRUE, port |-> config.PORT]
    /\ state' = "Listening"
    /\ UNCHANGED <<env, config, routes, pool, reqs>>

\* line 77 raises: the port is out of range, in use or not permitted
ListenFail ==
    /\ state = "Pooled"
    /\ state' = "Failed"
    /\ UNCHANGED <<env, config, routes, pool, listener, reqs>>

\* line 78: the event loop starts
StartLoop ==
    /\ state = "Listening"
    /\ state' = "Serving"
    /\ UNCHANGED <<env, config, routes, pool, listener, reqs>>

\* a client connects to the bound port and sends a request; it waits in
\* the socket until the loop runs
Arrive(c, m, p) ==
    /\ listener.bound
    /\ reqs[c].pc = "idle"
    /\ \A d \in Conns \ {c} :
          reqs[d].pc = "idle" \/ (p \in TwoAtATime /\ reqs[d].path \in TwoAtATime)
    /\ reqs' = [reqs EXCEPT ![c] =
                   Request("pending", m, p, <<>>, NoHandler, <<>>, NoResponse)]
    /\ UNCHANGED <<env, state, config, routes, pool, listener>>

\* the bindings the application selects for a path
Select(table, path) == Scan(table, path, 1)

\* the application selects a binding for the request and makes the handler
\* instance; a path no binding matches gets tornado's ErrorHandler
Dispatch(c) ==
    /\ state = "Serving"
    /\ reqs[c].pc = "pending"
    /\ LET r   == reqs[c]
           sel == Select(routes, r.path)
       IN  reqs' = [reqs EXCEPT ![c] =
               IF sel = <<>>
               THEN Request("dispatched", r.method, r.path, sel,
                            Handler("ErrorHandler", Resolve(<<>>), <<>>, <<>>),
                            <<>>, NoResponse)
               ELSE Request("dispatched", r.method, r.path, sel,
                            MakeHandler(routes[sel[Len(sel)]]),
                            Captured(routes[sel[Len(sel)]], r.path), NoResponse)]
    /\ UNCHANGED <<env, state, config, routes, pool, listener>>

\* the handler's method runs and the response is finished
Respond(c) ==
    /\ state = "Serving"
    /\ reqs[c].pc = "dispatched"
    /\ LET r == reqs[c]
       IN  reqs' = [reqs EXCEPT ![c] =
               Request("responded", r.method, r.path, r.invoked, r.handler,
                       r.args, Execute(r.handler, r.method, r.args))]
    /\ UNCHANGED <<env, state, config, routes, pool, listener>>

\* the connection is done with the request
Close(c) ==
    /\ reqs[c].pc = "responded"
    /\ reqs' = [reqs EXCEPT ![c] = IdleRequest]
    /\ UNCHANGED <<env, state, config, routes, pool, listener>>

Startup ==
    \/ ReadConfig
    \/ ConfigFail
    \/ BuildRoutes
    \/ BuildPool
    \/ PoolFail
    \/ Listen
    \/ ListenFail
    \/ StartLoop

Handling ==
    \/ \E c \in Conns : Dispatch(c)
    \/ \E c \in Conns : Respond(c)
    \/ \E c \in Conns : Close(c)

Next ==
    \/ Startup
    \/ \E c \in Conns, m \in Methods, p \in Paths : Arrive(c, m, p)
    \/ Handling

NextStartup ==
    \/ Startup
    \/ \E c \in Conns, m \in Methods, p \in ProbePaths : Arrive(c, m, p)
    \/ Handling

Spec == Init /\ [][Next]_vars
SpecStartup == InitStartup /\ [][NextStartup]_vars

----------------------------------------------------------------------------
(* Properties. *)

Handled(c) == reqs[c].pc \in {"dispatched", "responded"}
Done(c) == reqs[c].pc = "responded"

IndexFile == <<"client", "index.html">>

\* the five paths the API patterns spell
ApiPaths ==
    {<<Slash, "api", Slash, "user", Slash, "auth">>,
     <<Slash, "api", Slash, "user", Slash, "login">>,
     <<Slash, "api", Slash, "user", Slash, "logout">>,
     <<Slash, "api", Slash, "user", Slash, "register">>,
     <<Slash, "api", Slash, "sock">>}

StaticPrefixes == {"css", "js", "html"}

\* the path starts with /css/, /js/ or /html/
UnderStatic(p) ==
    Len(p) >= 3 /\ p[1] = Slash /\ p[2] \in StaticPrefixes /\ p[3] = Slash

\* the path starts with /api/
UnderApi(p) == Len(p) >= 3 /\ p[1] = Slash /\ p[2] = "api" /\ p[3] = Slash

\* the response is the index document, with its bytes when the request is a GET
IsIndexDocument(r) ==
    /\ r.resp.status = 200
    /\ r.resp.file = IndexFile
    /\ r.method = "GET" => r.resp.body = <<"<html>", "app">>

\* C1: every request whose path is none of the five API paths and does not
\* start with /css/, /js/ or /html/ is dispatched to IndexHandler, and a GET
\* it serves has status 200 and the bytes of client/index.html as its body,
\* the same for any two such paths.
C1_FallbackServesIndex ==
    \A c \in Conns :
        (Handled(c) /\ reqs[c].path \notin ApiPaths /\ ~UnderStatic(reqs[c].path)) =>
            /\ reqs[c].handler.class = "IndexHandler"
            /\ (Done(c) /\ reqs[c].method = "GET") =>
                  /\ reqs[c].resp.status = 200
                  /\ reqs[c].resp.body = <<"<html>", "app">>
                  /\ \A d \in Conns :
                        (Done(d) /\ reqs[d].method = "GET"
                           /\ reqs[d].path \notin ApiPaths
                           /\ ~UnderStatic(reqs[d].path)) =>
                            /\ reqs[d].resp.status = reqs[c].resp.status
                            /\ reqs[d].resp.body = reqs[c].resp.body

\* two GETs, for / and for /foo, have both been answered by the fallback
C1_Witness ==
    \E c, d \in Conns :
        /\ Done(c) /\ reqs[c].method = "GET" /\ reqs[c].path = <<Slash>>
        /\ Done(d) /\ reqs[d].method = "GET" /\ reqs[d].path = <<Slash, "foo">>
        /\ reqs[c].handler.class = "IndexHandler"
        /\ reqs[d].resp.body = <<"<html>", "app">>

\* the list [A, B, catchAll] with A the /css/ and B the /js/ binding
ThreeBindings == <<RouteTable[6], RouteTable[7], RouteTable[9]>>

\* C2: dispatch selects the first binding, in registration order, whose
\* pattern matches.  In a list [A, B, catchAll] a path matching A selects A
\* only, a path matching B selects B only, and any other path selects
\* catchAll; with the table of main, every request has exactly one binding
\* selected, the earliest one that matches its path, and is handled by an
\* instance of that binding's class.
C2_FirstMatchWins ==
    /\ \A p \in Paths :
          Select(ThreeBindings, p) =
              IF IsPrefix(<<Slash, "css", Slash>>, p) THEN <<1>>
              ELSE IF IsPrefix(<<Slash, "js", Slash>>, p) THEN <<2>>
              ELSE <<3>>
    /\ \A c \in Conns :
          Handled(c) =>
              /\ Len(reqs[c].invoked) = 1
              /\ LET i == reqs[c].invoked[1]
                 IN  /\ i \in 1..Len(routes)
                     /\ Matches(routes[i], reqs[c].path)
                     /\ \A j \in 1..(i - 1) : ~Matches(routes[j], reqs[c].path)
                     /\ reqs[c].handler.class = routes[i].handler

\* a request for /css/x.css was given to the sixth binding while one for
\* /foo was given to the catch-all
C2_Witness ==
    \E c, d \in Conns :
        /\ Handled(c) /\ reqs[c].path = <<Slash, "css", Slash, "x.css">>
        /\ reqs[c].invoked = <<6>>
        /\ Handled(d) /\ reqs[d].path = <<Slash, "foo">>
        /\ reqs[d].invoked = <<9>>

\* an optionally signed decimal numeral
Numeric(s) ==
    LET body == IF s # <<>> /\ Head(s) \in {"-", "+"} THEN Tail(s) ELSE s
    IN  body # <<>> /\ \A i \in 1..Len(body) : body[i] \in Digits

DbPortBad == ~env["DB_PORT"].set \/ ~Numeric(env["DB_PORT"].val)

\* C3: when DB_PORT is missing from the environment or is not numeric, the
\* process never gets past reading its settings: no route table is built,
\* no pool is constructed, no socket is bound, and it is never Listening or
\* Serving.
C3_BadDbPortAborts ==
    DbPortBad =>
        /\ state \in {"Unconfigured", "Failed"}
        /\ routes = <<>>
        /\ ~pool.built
        /\ ~listener.bound

\* startup has failed with DB_PORT missing and PORT readable
C3_Witness ==
    /\ ~env["DB_PORT"].set
    /\ ReadPORT(env).ok
    /\ state = "Failed"

\* C4: when any of the database host, name, user, password or port, the
\* API key or secret, or the cookie secret is missing from the environment,
\* the process does not reach Listening (nor Serving).
C4_MissingSettingAborts ==
    (\E n \in StrNames \cup {"DB_PORT"} : ~env[n].set) =>
        state \notin {"Listening", "Serving"}

\* C5: a HEAD answered by the fallback handler has the status and the
\* headers of a GET answered by it, and no body.
C5_HeadHasNoBody ==
    \A c \in Conns :
        (Done(c) /\ reqs[c].handler.class = "IndexHandler" /\ reqs[c].method = "HEAD") =>
            /\ reqs[c].resp.body = <<>>
            /\ reqs[c].resp.status = 200
            /\ reqs[c].resp.length = Len(Bytes(IndexFile))
            /\ \A d \in Conns :
                  (Done(d) /\ reqs[d].handler.class = "IndexHandler"
                     /\ reqs[d].method = "GET") =>
                      /\ reqs[d].resp.status = reqs[c].resp.status
                      /\ reqs[d].resp.ctype = reqs[c].resp.ctype
                      /\ reqs[d].resp.length = reqs[c].resp.length
                      /\ reqs[d].resp.body # <<>>

\* a HEAD and a GET for /foo have both been answered by the fallback
C5_Witness ==
    \E c, d \in Conns :
        /\ Done(c) /\ reqs[c].method = "HEAD" /\ reqs[c].path = <<Slash, "foo">>
        /\ Done(d) /\ reqs[d].method = "GET" /\ reqs[d].path = <<Slash, "foo">>
        /\ reqs[c].handler.class = "IndexHandler"
        /\ reqs[c].resp.body = <<>>

\* the request is handled by a static handler rooted at dir and, once
\* answered, was served file
ServedFrom(r, dir, file) ==
    /\ r.pc \in {"dispatched", "responded"} =>
          /\ r.handler.class = "StaticFileHandler"
          /\ r.handler.root = [abs |-> FALSE, segs |-> dir]
    /\ r.pc = "responded" =>
          /\ r.resp.status = 200
          /\ r.resp.file = file
          /\ r.method = "GET" => r.resp.body = Bytes(file)

\* C6: whenever a request for /css/x.css and a request for /js/y.js are in
\* progress together, whatever steps of either have been taken, the first
\* is resolved against client/css and served client/css/x.css, and the
\* second against client/js and served client/js/y.js.
C6_NoCrossServing ==
    \A c, d \in Conns :
        (/\ c # d
         /\ reqs[c].pc # "idle" /\ reqs[c].path = <<Slash, "css", Slash, "x.css">>
         /\ reqs[d].pc # "idle" /\ reqs[d].path = <<Slash, "js", Slash, "y.js">>) =>
            /\ ServedFrom(reqs[c], <<"client", "css">>, <<"client", "css", "x.css">>)
            /\ ServedFrom(reqs[d], <<"client", "js">>, <<"client", "js", "y.js">>)

\* the script request was answered while the stylesheet request, which
\* arrived with it, had been dispatched and not yet answered
C6_Witness ==
    \E c, d \in Conns :
        /\ reqs[c].pc = "dispatched" /\ reqs[c].path = <<Slash, "css", Slash, "x.css">>
        /\ reqs[d].pc = "responded" /\ reqs[d].path = <<Slash, "js", Slash, "y.js">>
        /\ reqs[d].method = "GET"
        /\ reqs[d].resp.body = <<"var", "y">>

\* C7: client/index.html is split into the directory client and the file
\* name index.html, every instance of IndexHandler holds exactly these, and
\* what it answers is what the generic static get answers for index.html
\* under the root client.
C7_SplitAndRewrite ==
    /\ PathSplit(<<"client", Slash, "index.html">>) =
          [dirname |-> <<"client">>, filename |-> <<"index.html">>]
    /\ \A c \in Conns :
          (Handled(c) /\ reqs[c].handler.class = "IndexHandler") =>
              /\ reqs[c].handler.dirname = <<"client">>
              /\ reqs[c].handler.filename = <<"index.html">>
              /\ reqs[c].handler.root = [abs |-> FALSE, segs |-> <<"client">>]
              /\ Done(c) =>
                    reqs[c].resp =
                        StaticFileHandler_get([abs |-> FALSE, segs |-> <<"client">>],
                                              <<"index.html">>,
                                              reqs[c].method = "GET")

\* a request for /foo/ has been answered by the fallback
C7_Witness ==
    \E c \in Conns :
        /\ Done(c) /\ reqs[c].path = <<Slash, "foo", Slash>>
        /\ reqs[c].handler.class = "IndexHandler"
        /\ reqs[c].args = <<Slash, "foo", Slash>>
        /\ reqs[c].resp.file = IndexFile

\* how far along the startup sequence a state is
Rank(s) ==
    CASE s = "Unconfigured" -> 0
      [] s = "Configured"   -> 1
      [] s = "Routed"       -> 2
      [] s = "Pooled"       -> 3
      [] s = "Listening"    -> 4
      [] s = "Serving"      -> 5

\* what exists in each state: the settings before the routes, the routes
\* before the pool, the pool before the socket, the socket and the running
\* loop before any request is dispatched
StartupOrderInv ==
    /\ state \in States
    /\ state = "Unconfigured" => config = NoConfig
    /\ routes # <<>> => (ConfigLoads(env) /\ config = LoadConfig(env))
    /\ pool.built => routes = RouteTable
    /\ listener.bound => pool.built
    /\ (\E c \in Conns : Handled(c)) => (listener.bound /\ state = "Serving")
    /\ state = "Configured" => (routes = <<>> /\ ~pool.built /\ ~listener.bound)
    /\ state = "Routed" => (routes = RouteTable /\ ~pool.built /\ ~listener.bound)
    /\ state = "Pooled" => (pool.built /\ ~listener.bound)
    /\ state \in {"Listening", "Serving"} => listener.bound

\* the state changes only to the next one of the sequence, or to Failed
\* from a state before Serving; Serving and Failed are never left
StartupOrderStep ==
    /\ state' # state =>
          \/ state # "Failed" /\ state' # "Failed" /\ Rank(state') = Rank(state) + 1
          \/ state' = "Failed" /\ state # "Serving"
    /\ state = "Serving" => state' = "Serving"
    /\ state = "Failed" => state' = "Failed"

\* C8: startup passes through Unconfigured, Configured, Routed, Pooled,
\* Listening, Serving in this order, one step at a time: the routes are
\* built after the settings are read, the pool after the routes, the port
\* is bound after the pool is constructed, no request is dispatched before
\* the port is bound, Serving is never left, and a startup that fails never
\* reaches Serving.
C8_StartupOrder == [](StartupOrderInv) /\ [][StartupOrderStep]_vars

\* the process is Serving and has answered a request
C8_Witness ==
    /\ state = "Serving"
    /\ pool.built /\ listener.bound /\ routes = RouteTable
    /\ \E c \in Conns : Done(c)

\* what the captured part of a path under a static prefix names in the
\* prefix's directory, when it names something there: the names of the
\* path put below client
Target(p) == <<"client">> \o SelectSeq(p, IsName)

\* the captured part of the path is relative and names nothing that exists
MissingInDirectory(p) ==
    /\ Len(p) >= 4
    /\ p[4] # Slash
    /\ Target(p) \notin (Dirs \cup FileNames)

C10_ApiPatternsAreExact ==
    \A c \in Conns :
        (/\ Handled(c)
         /\ \/ UnderApi(reqs[c].path) /\ reqs[c].path \notin ApiPaths
            \/ reqs[c].path \in {<<Slash, x>> : x \in StaticPrefixes}) =>
            /\ reqs[c].handler.class = "IndexHandler"
            /\ reqs[c].invoked = <<Len(RouteTable)>>
            /\ Done(c) => IsIndexDocument(reqs[c])

\* a GET for /api/user/auth/foo was answered with the index document
C10_Witness ==
    \E c \in Conns :
        /\ Done(c) /\ reqs[c].method = "GET"
        /\ reqs[c].path = <<Slash, "api", Slash, "user", Slash, "auth", Slash, "foo">>
        /\ reqs[c].handler.class = "IndexHandler"
        /\ reqs[c].resp.body = <<"<html>", "app">>

====
